---- MODULE Spec2Model ----
(***************************************************************************)
(* Model of the Diffbot analytics dashboard.                               *)
(*                                                                         *)
(* The repository holds two variants of the same Streamlit application:    *)
(*   - the single-file dashboard  (analytics_dashboard.py), and            *)
(*   - the modular variant        (ui_components.py, diffbot_api.py,       *)
(*                                 session_utils.py, data_utils.py, ...).  *)
(* One server process runs one of them (variable app).  A process serves   *)
(* several browser sessions; st.session_state is per session, os.environ   *)
(* and the st.cache_resource cache are per process.  Every user            *)
(* interaction re-runs the script top to bottom; the only point where a    *)
(* script run blocks is the remote chat-completion request.                *)
(***************************************************************************)
EXTENDS Integers, Sequences, FiniteSets, TLC

----------------------------------------------------------------------------
(* Bounds of the model *)

MaxRequests == 2     \* requests sent to the remote endpoint
MaxHistory == 2      \* records store_analysis_result is called for directly
MaxUsers == 7        \* largest count a library function is called with
MaxRows == 2         \* rows of one export

Sessions == {1, 2}
Tokens == {"tokA", "tokB"}
Topics == {"retention"}
Replies == {"lift is significant", "Error: timeout"}
Failures == {"timeout"}
Instants == {0, 1}   \* readings of the wall clock, in seconds
StoredTypes == {"A/B Test", "Market Research"}
StoredResults == {"lift is significant"}

----------------------------------------------------------------------------
(* Program constants *)

NoToken == ""
EmptyTopic == ""
Untouched == "<untouched>"      \* a text_input the user has not edited yet
ERROR_CONFIGURE_TOKEN == "Please configure your Diffbot API token first."
ERROR_ENTER_TOPIC == "Please enter a research topic."
ERROR_SIDEBAR_TOKEN == "Please configure your Diffbot API token in the sidebar."
DashboardModels == {"diffbot-small-xl", "diffbot-large"}
ModularModels == {"diffbot-small-xl", "diffbot-medium-xl", "diffbot-large-xl"}
DefaultGroups == <<1000, 50, 1000, 65>>
NoGroups == <<>>

VARIABLES
    app,               \* "dashboard" or "modular": the script the process runs
    env,               \* os.environ[DIFFBOT_API_TOKEN]; "" when unset
    client_cache,      \* st.cache_resource entry of get_diffbot_client
    sent,              \* number of requests sent to the chat-completion endpoint
    request,           \* the last of them
    now,               \* wall clock, in seconds
    api_input,         \* per session: sidebar token text_input
    stored_api_key,    \* per session: st.session_state.api_key (modular)
    research_topic,    \* per session: st.session_state.research_topic
    groups,            \* per session: the four number_inputs
    has_history,       \* per session: "analysis_history" in st.session_state
    analysis_history,  \* per session: st.session_state.analysis_history
    query_count,       \* per session: st.session_state.query_count
    pc,                \* per session: "idle", or "calling" inside the spinner
    inflight,          \* per session: the run blocked in the remote request
    stored,            \* per session: (type, query, result) stored since the last clear
    last,              \* the last operation: its session, its outcome, the
                       \* message and the export link it displayed
    lib_call,          \* a library function called on its own: name, arguments
    lib_result         \* and what the call produced

process == <<app, env, client_cache, sent, request, now>>
inputs == <<api_input, stored_api_key, research_topic, groups>>
history == <<has_history, analysis_history, stored>>
vars == <<process, inputs, history, query_count, pc, inflight, last>>
lib == <<lib_call, lib_result>>

----------------------------------------------------------------------------
(* Values *)

\* A text the program composes: a template filled with a topic or with the
\* four numbers of the two groups.
Text(tpl, topic, g) == [tpl |-> tpl, topic |-> topic, groups |-> g]
NoText == Text("", "", NoGroups)
Plain(t) == Text("plain", t, NoGroups)

None == [present |-> FALSE, api_key |-> NoToken]
Uncached == [cached |-> FALSE, client |-> None]
NoCall == [tab |-> "none", type |-> "", query |-> NoText, prompt |-> NoText,
           model |-> ""]
Responses == [ok : {TRUE}, text : Replies] \cup [ok : {FALSE}, text : Failures]

Reverse(seq) == [i \in 1..Len(seq) |-> seq[Len(seq) + 1 - i]]
IsPrefix(a, b) == Len(a) <= Len(b) /\ SubSeq(b, 1, Len(a)) = a
Triple(r) == <<r.type, r.query, r.result>>
Triples(h) == [i \in 1..Len(h) |-> Triple(h[i])]

----------------------------------------------------------------------------
(* The analysis client.  diffbot_api.py and analytics_dashboard.py hold the  *)
(* same two functions; each variant calls its own copy.                      *)

\* @st.cache_resource get_diffbot_client(): the first call reads the
\* environment variable and its return value (a client, or None) is kept in
\* the process-wide cache; every later call returns the cached value.
\* Mutant: the client is built without the check for a missing token.
get_diffbot_client_unchecked(cache, e) ==
    IF cache.cached
    THEN [cache |-> cache, client |-> cache.client]
    ELSE [cache |-> [cached |-> TRUE, client |-> [present |-> TRUE, api_key |-> e]],
          client |-> [present |-> TRUE, api_key |-> e]]

get_diffbot_client(cache, e) ==
    IF cache.cached
    THEN [cache |-> cache, client |-> cache.client]
    ELSE LET made == IF e = NoToken THEN None
                     ELSE [present |-> TRUE, api_key |-> e]
         IN  [cache |-> [cached |-> TRUE, client |-> made], client |-> made]

dashboard_get_diffbot_client(cache, e) ==
    IF cache.cached
    THEN [cache |-> cache, client |-> cache.client]
    ELSE LET made == IF e = NoToken THEN None
                     ELSE [present |-> TRUE, api_key |-> e]
         IN  [cache |-> [cached |-> TRUE, client |-> made], client |-> made]

\* client.chat.completions.create(model=model, messages=[{"role": "user",
\* "content": query}]): what the endpoint receives.
ChatRequest(client, query, model) ==
    [api_key |-> client.api_key, model |-> model,
     messages |-> <<[role |-> "user", content |-> query]>>]

dashboard_ChatRequest(client, query, model) ==
    [api_key |-> client.api_key, model |-> model,
     messages |-> <<[role |-> "user", content |-> query]>>]

\* The value analyze_with_diffbot returns once the request has returned
\* (the first choice's content) or raised (f"Error: {str(e)}").
AnalyzeResult(resp) == IF resp.ok THEN resp.text ELSE "Error: " \o resp.text

dashboard_AnalyzeResult(resp) ==
    IF resp.ok THEN resp.text ELSE "Error: " \o resp.text

\* A request as logged at the endpoint.  by, explicit and resolved are
\* bookkeeping: the session whose run sent it, the token its caller supplied
\* and the credential that resolved (explicit, else environment) when it
\* was sent.
Logged(req, s, explicit, e) ==
    [wire |-> req, by |-> s, explicit |-> explicit,
     resolved |-> IF explicit # NoToken THEN explicit ELSE e]
NoRequest == Logged(ChatRequest(None, NoText, ""), 0, NoToken, NoToken)

Op(op, s, outcome, msg, export) ==
    [op |-> op, session |-> s, outcome |-> outcome, msg |-> msg, export |-> export]

\* No library function has been called on its own.
NoLibCall == [fn |-> "none"]
NotCalled == [status |-> "not called"]

----------------------------------------------------------------------------
(* Session history *)

Record(ts, type, query, result) ==
    [timestamp |-> ts, type |-> type, query |-> query, result |-> result]

\* Mutant: the list is initialised on every call, not only when absent.
store_analysis_result_reset(present, h, ts, type, query, result) ==
    [present |-> TRUE, list |-> <<Record(ts, type, query, result)>>]

\* session_utils.store_analysis_result: the new (present, list) pair.
store_analysis_result(present, h, ts, type, query, result) ==
    LET h0 == IF present THEN h ELSE <<>>
    IN  [present |-> TRUE, list |-> Append(h0, Record(ts, type, query, result))]

\* The dashboard's inline copy (lines 184-192, 278-286).
dashboard_store(present, h, ts, type, query, result) ==
    LET h0 == IF present THEN h ELSE <<>>
    IN  [present |-> TRUE, list |-> Append(h0, Record(ts, type, query, result))]

\* datetime.now(): the clock never runs backwards.
Stamps == {t \in Instants : t >= now}

----------------------------------------------------------------------------
(* Initial state: the process has started (load_dotenv may have set the     *)
(* token) and each session has had its first script run.                    *)

Started ==
    /\ app \in {"dashboard", "modular"}
    /\ env \in Tokens \cup {NoToken}
    /\ client_cache = Uncached
    /\ sent = 0
    /\ request = NoRequest
    /\ now = 0
    /\ api_input = [s \in Sessions |-> Untouched]
    /\ stored_api_key = [s \in Sessions |-> NoToken]
    /\ research_topic = [s \in Sessions |-> EmptyTopic]
    /\ groups = [s \in Sessions |-> DefaultGroups]
    /\ has_history = [s \in Sessions |-> FALSE]
    /\ analysis_history = [s \in Sessions |-> <<>>]
    /\ stored = [s \in Sessions |-> <<>>]
    /\ query_count = [s \in Sessions |-> 0]
    /\ pc = [s \in Sessions |-> "idle"]
    /\ inflight = [s \in Sessions |-> NoCall]
    /\ last = Op("start", 0, "", "", "none")

Init ==
    /\ Started
    /\ lib_call = NoLibCall
    /\ lib_result = NotCalled

----------------------------------------------------------------------------
(* The single-file dashboard (analytics_dashboard.py main)                   *)

\* The sidebar token field: its default is the environment variable.
ApiKey(s) == IF api_input[s] = Untouched THEN env ELSE api_input[s]

\* Lines 99-103: a non-empty token is written to the process environment.
SidebarEnv(k) == IF k # NoToken THEN k ELSE env

\* The user edits the sidebar token; the script re-runs.
DashEnterToken(s, t) ==
    /\ app = "dashboard" /\ pc[s] = "idle"
    /\ api_input' = [api_input EXCEPT ![s] = t]
    /\ env' = SidebarEnv(t)
    /\ last' = Op("enter_token", s, "", "", "none")
    /\ UNCHANGED <<app, client_cache, sent, request, now, stored_api_key,
                   research_topic, groups, history, query_count, pc, inflight>>

\* The user edits the research topic; the script re-runs.
DashSetTopic(s, t) ==
    /\ app = "dashboard" /\ pc[s] = "idle"
    /\ research_topic' = [research_topic EXCEPT ![s] = t]
    /\ env' = SidebarEnv(ApiKey(s))
    /\ last' = Op("set_topic", s, "", "", "none")
    /\ UNCHANGED <<app, client_cache, sent, request, now, api_input, stored_api_key,
                   groups, history, query_count, pc, inflight>>

\* Mutant: a run whose call failed starts the history afresh.
DashFinishDropOnError(s, call, result, outcome, ts) ==
    LET h0 == IF outcome = "remote_error" THEN <<>> ELSE analysis_history[s]
        st == dashboard_store(has_history[s], h0, ts, call.type, call.query, result)
    IN  /\ query_count' = [query_count EXCEPT ![s] = @ + 1]
        /\ has_history' = [has_history EXCEPT ![s] = st.present]
        /\ analysis_history' = [analysis_history EXCEPT ![s] = st.list]
        /\ stored' = [stored EXCEPT ![s] = Append(@, <<call.type, call.query, result>>)]
        /\ now' = ts
        /\ last' = Op(call.tab, s, outcome, result, call.tab)

\* Lines 181-210 and 275-301: what a run does with the value
\* analyze_with_diffbot returned.
DashFinish(s, call, result, outcome, ts) ==
    LET st == dashboard_store(has_history[s], analysis_history[s], ts,
                              call.type, call.query, result)
    IN  /\ query_count' = [query_count EXCEPT ![s] = @ + 1]
        /\ has_history' = [has_history EXCEPT ![s] = st.present]
        /\ analysis_history' = [analysis_history EXCEPT ![s] = st.list]
        /\ stored' = [stored EXCEPT ![s] = Append(@, <<call.type, call.query, result>>)]
        /\ now' = ts
        /\ last' = Op(call.tab, s, outcome, result, call.tab)

\* Mutant: a pending record is appended before the request goes out.
DashSendEager(s, call, req) ==
    /\ sent < MaxRequests
    /\ sent' = sent + 1
    /\ request' = req
    /\ pc' = [pc EXCEPT ![s] = "calling"]
    /\ inflight' = [inflight EXCEPT ![s] = call]
    /\ last' = Op("send", s, "", "", "none")
    /\ has_history' = [has_history EXCEPT ![s] = TRUE]
    /\ analysis_history' = [analysis_history EXCEPT ![s] =
                                Append(@, Record(now, call.type, call.query, "pending"))]
    /\ UNCHANGED <<now, stored, query_count>>

\* Lines 45-48 inside the spinner: the request goes out and the script run
\* blocks until the endpoint answers.
DashSend(s, call, req) ==
    /\ sent < MaxRequests
    /\ sent' = sent + 1
    /\ request' = req
    /\ pc' = [pc EXCEPT ![s] = "calling"]
    /\ inflight' = [inflight EXCEPT ![s] = call]
    /\ last' = Op("send", s, "", "", "none")
    /\ UNCHANGED <<now, history, query_count>>

\* A run button of the dashboard: the sidebar, the token guard, the prompt,
\* then analyze_with_diffbot up to the request it sends.
DashRun(s, tab, type, query, prompt, model) ==
    LET k == ApiKey(s)
        e1 == SidebarEnv(k)
        got == dashboard_get_diffbot_client(client_cache, e1)
        call == [tab |-> tab, type |-> type, query |-> query,
                 prompt |-> prompt, model |-> model]
    IN  /\ env' = e1
        /\ IF k = NoToken
           THEN /\ last' = Op(tab, s, "missing_credential", ERROR_SIDEBAR_TOKEN, "none")
                /\ UNCHANGED <<client_cache, sent, request, now, history,
                               query_count, pc, inflight>>
           ELSE /\ client_cache' = got.cache
                /\ IF ~got.client.present
                   THEN /\ \E ts \in Stamps :
                              DashFinish(s, call, ERROR_CONFIGURE_TOKEN,
                                         "missing_credential", ts)
                        /\ UNCHANGED <<sent, request, pc, inflight>>
                   ELSE DashSend(s, call,
                            Logged(dashboard_ChatRequest(got.client, prompt, model),
                                   s, k, e1))
        /\ UNCHANGED <<app, inputs>>

\* "Analyze A/B Test" (lines 165-180).
DashAbRun(s, model) ==
    /\ app = "dashboard" /\ pc[s] = "idle"
    /\ DashRun(s, "dash_ab", "A/B Test", Text("ab_summary", "", groups[s]),
               Text("dashboard_ab_prompt", "", groups[s]), model)

\* Mutant: the topic is not checked before the run.
DashResearchRunUnchecked(s, model) ==
    /\ app = "dashboard" /\ pc[s] = "idle"
    /\ DashRun(s, "dash_research", "Market Research", Plain(research_topic[s]),
               Text("dashboard_research_prompt", research_topic[s], NoGroups),
               model)

\* "Research Topic" (lines 253-274).
DashResearchRun(s, model) ==
    /\ app = "dashboard" /\ pc[s] = "idle"
    /\ IF research_topic[s] = EmptyTopic
       THEN /\ env' = SidebarEnv(ApiKey(s))
            /\ last' = Op("dash_research", s, "empty_topic", ERROR_ENTER_TOPIC, "none")
            /\ UNCHANGED <<app, client_cache, sent, request, now, inputs, history,
                           query_count, pc, inflight>>
       ELSE DashRun(s, "dash_research", "Market Research",
                    Plain(research_topic[s]),
                    Text("dashboard_research_prompt", research_topic[s], NoGroups),
                    model)

\* Mutant: a run refused for its empty request is counted as a query.
DashCustomRunCounted(s, file, analysis_request, model) ==
    /\ app = "dashboard" /\ pc[s] = "idle"
    /\ IF ~file.readable
       THEN /\ env' = SidebarEnv(ApiKey(s))
            /\ last' = Op("dash_custom", s, "unreadable_file", "Error reading file",
                          "none")
            /\ UNCHANGED <<app, client_cache, sent, request, now, inputs, history,
                           query_count, pc, inflight>>
       ELSE IF analysis_request = ""
       THEN /\ env' = SidebarEnv(ApiKey(s))
            /\ last' = Op("dash_custom", s, "empty_request",
                          "Please describe what analysis you'd like.", "none")
            /\ query_count' = [query_count EXCEPT ![s] = @ + 1]
            /\ UNCHANGED <<app, client_cache, sent, request, now, inputs, history,
                           pc, inflight>>
       ELSE DashRun(s, "dash_custom", "Custom Analysis", Plain(analysis_request),
                    Text("dashboard_custom_prompt", analysis_request, NoGroups),
                    model)

\* "Analyze Data" of the custom analysis tab (lines 343-462), shown once a
\* file is uploaded: the file is read, the request and the token are
\* checked, then the run is as in the other tabs.
DashCustomRun(s, file, analysis_request, model) ==
    /\ app = "dashboard" /\ pc[s] = "idle"
    /\ IF ~file.readable
       THEN /\ env' = SidebarEnv(ApiKey(s))
            /\ last' = Op("dash_custom", s, "unreadable_file", "Error reading file",
                          "none")
            /\ UNCHANGED <<app, client_cache, sent, request, now, inputs, history,
                           query_count, pc, inflight>>
       ELSE IF analysis_request = ""
       THEN /\ env' = SidebarEnv(ApiKey(s))
            /\ last' = Op("dash_custom", s, "empty_request",
                          "Please describe what analysis you'd like.", "none")
            /\ UNCHANGED <<app, client_cache, sent, request, now, inputs, history,
                           query_count, pc, inflight>>
       ELSE DashRun(s, "dash_custom", "Custom Analysis", Plain(analysis_request),
                    Text("dashboard_custom_prompt", analysis_request, NoGroups),
                    model)

\* "Export All History" (lines 476-484), shown while the history is not empty.
DashExportAll(s) ==
    /\ app = "dashboard" /\ pc[s] = "idle"
    /\ has_history[s] /\ analysis_history[s] # <<>>
    /\ env' = SidebarEnv(ApiKey(s))
    /\ last' = Op("export_all", s, "", "", "analysis_history")
    /\ UNCHANGED <<app, client_cache, sent, request, now, inputs, history,
                   query_count, pc, inflight>>

\* Mutant: Clear History resets the counter and forgets the list.
DashClearHistoryCountOnly(s) ==
    /\ app = "dashboard" /\ pc[s] = "idle"
    /\ has_history[s] /\ analysis_history[s] # <<>>
    /\ env' = SidebarEnv(ApiKey(s))
    /\ query_count' = [query_count EXCEPT ![s] = 0]
    /\ last' = Op("clear", s, "", "", "none")
    /\ UNCHANGED <<app, client_cache, sent, request, now, inputs, history,
                   pc, inflight>>

\* "Clear History" (lines 486-491), shown while the history is not empty;
\* st.rerun() then renders the page again.
DashClearHistory(s) ==
    /\ app = "dashboard" /\ pc[s] = "idle"
    /\ has_history[s] /\ analysis_history[s] # <<>>
    /\ env' = SidebarEnv(ApiKey(s))
    /\ analysis_history' = [analysis_history EXCEPT ![s] = <<>>]
    /\ stored' = [stored EXCEPT ![s] = <<>>]
    /\ query_count' = [query_count EXCEPT ![s] = 0]
    /\ last' = Op("clear", s, "", "", "none")
    /\ UNCHANGED <<app, client_cache, sent, request, now, inputs, has_history,
                   pc, inflight>>

----------------------------------------------------------------------------
(* The modular variant.  Its entry script is not part of the sources: each   *)
(* function of ui_components.py, diffbot_api.py and session_utils.py is an   *)
(* operation, called with the arguments its signature takes.                 *)

\* Python binds a call only when the number of positional arguments fits.
Accepts(lo, hi, n) == lo <= n /\ n <= hi
ValidateMaxArgs == 0
ValidateCallArgs == 1
AnalyzeMinArgs == 1
AnalyzeMaxArgs == 2
AnalyzeCallArgs == 3
TypeErrorText == "TypeError: positional arguments"

\* render_sidebar(): the token field (t is what it holds), validate_api_key
\* called with api_key for a non-empty token, then the Clear History button.
render_sidebar(s, t, clear) ==
    LET raised == t # NoToken /\ ~Accepts(0, ValidateMaxArgs, ValidateCallArgs)
    IN  /\ app = "modular" /\ pc[s] = "idle"
        /\ stored_api_key' = IF t # NoToken
                             THEN [stored_api_key EXCEPT ![s] = t]
                             ELSE stored_api_key
        /\ IF raised
           THEN /\ last' = Op("sidebar", s, "uncaught", TypeErrorText, "none")
                /\ UNCHANGED history
           ELSE IF clear
           THEN /\ has_history' = [has_history EXCEPT ![s] = TRUE]
                /\ analysis_history' = [analysis_history EXCEPT ![s] = <<>>]
                /\ stored' = [stored EXCEPT ![s] = <<>>]
                /\ last' = Op("clear", s, "", "History cleared!", "none")
           ELSE /\ last' = Op("sidebar", s, "", "", "none")
                /\ UNCHANGED history
        /\ UNCHANGED <<process, api_input, research_topic, groups, query_count,
                       pc, inflight>>

\* The research topic field of render_market_research_tab (lines 210-219).
ModSetTopic(s, t) ==
    /\ app = "modular" /\ pc[s] = "idle"
    /\ research_topic' = [research_topic EXCEPT ![s] = t]
    /\ last' = Op("set_topic", s, "", "", "none")
    /\ UNCHANGED <<process, api_input, stored_api_key, groups, history,
                   query_count, pc, inflight>>

\* analyze_with_diffbot(query, model) of diffbot_api.py up to the request.
\* A missing client makes it return ERROR_CONFIGURE_TOKEN at once.
Analyze(s, call, explicit) ==
    LET got == get_diffbot_client(client_cache, env)
    IN  /\ client_cache' = got.cache
        /\ IF ~got.client.present
           THEN /\ last' = Op(call.tab, s, "missing_credential",
                              ERROR_CONFIGURE_TOKEN, "none")
                /\ UNCHANGED <<sent, request, pc, inflight>>
           ELSE /\ sent < MaxRequests
                /\ sent' = sent + 1
                /\ request' = Logged(ChatRequest(got.client, call.prompt, call.model),
                                     s, explicit, env)
                /\ pc' = [pc EXCEPT ![s] = "calling"]
                /\ inflight' = [inflight EXCEPT ![s] = call]
                /\ last' = Op("send", s, "", "", "none")

\* The run button of a tab of ui_components.py, called with api_key k:
\* the token guard, then analyze_with_diffbot(prompt, api_key, model_choice)
\* inside try/except.
ModRun(s, k, tab, type, query, prompt, model) ==
    /\ IF k = NoToken
       THEN /\ last' = Op(tab, s, "missing_credential", ERROR_SIDEBAR_TOKEN, "none")
            /\ UNCHANGED <<client_cache, sent, request, pc, inflight>>
       ELSE IF ~Accepts(AnalyzeMinArgs, AnalyzeMaxArgs, AnalyzeCallArgs)
       THEN /\ last' = Op(tab, s, "exception",
                          "Analysis failed: " \o TypeErrorText, "none")
            /\ UNCHANGED <<client_cache, sent, request, pc, inflight>>
       ELSE Analyze(s, [tab |-> tab, type |-> type, query |-> query,
                        prompt |-> prompt, model |-> model], k)
    /\ UNCHANGED <<app, env, now, inputs, history, query_count>>

\* render_ab_test_tab, "Analyze A/B Test" pressed (lines 140-200).
render_ab_test_tab(s, k, model) ==
    /\ app = "modular" /\ pc[s] = "idle"
    /\ ModRun(s, k, "mod_ab", "A/B Test", Text("modular_ab_prompt", "", groups[s]),
              Text("modular_ab_prompt", "", groups[s]), model)

\* render_market_research_tab, "Research Topic" pressed (lines 242-286).
render_market_research_tab(s, k, model) ==
    /\ app = "modular" /\ pc[s] = "idle"
    /\ IF research_topic[s] = EmptyTopic
       THEN /\ last' = Op("mod_research", s, "empty_topic", ERROR_ENTER_TOPIC, "none")
            /\ UNCHANGED <<process, inputs, history, query_count, pc, inflight>>
       ELSE ModRun(s, k, "mod_research", "Market Research",
                   Plain(research_topic[s]),
                   Text("modular_research_prompt", research_topic[s], NoGroups),
                   model)

\* Mutant: the newest-first view is made by reversing the list in place.
render_history_tab_in_place(s, exportAll) ==
    /\ app = "modular" /\ pc[s] = "idle"
    /\ analysis_history' = [analysis_history EXCEPT ![s] = Reverse(@)]
    /\ last' = Op("history_tab", s, "", "", "analysis")
    /\ UNCHANGED <<process, inputs, has_history, stored, query_count, pc, inflight>>

\* render_history_tab(): the newest-first view with one export link per
\* record, and the link of "Export All Results" when it is pressed.
render_history_tab(s, exportAll) ==
    /\ app = "modular" /\ pc[s] = "idle"
    /\ last' = IF has_history[s] /\ analysis_history[s] # <<>>
               THEN Op("history_tab", s, "", "",
                       IF exportAll THEN "all_analyses" ELSE "analysis")
               ELSE Op("history_tab", s, "", "No analysis history yet.", "none")
    /\ UNCHANGED <<process, inputs, history, query_count, pc, inflight>>

\* diffbot_api.analyze_with_diffbot(query, model) called with the arguments
\* of its signature.
analyze_with_diffbot(s, topic, model) ==
    /\ app = "modular" /\ pc[s] = "idle"
    /\ Analyze(s, [tab |-> "api", type |-> "", query |-> Plain(topic),
                   prompt |-> Plain(topic), model |-> model], NoToken)
    /\ UNCHANGED <<app, env, now, inputs, history, query_count>>

\* session_utils.store_analysis_result(analysis_type, query, result) called
\* with the arguments of its signature.
StoreResult(s, type, topic, result, ts) ==
    LET st == store_analysis_result(has_history[s], analysis_history[s], ts,
                                    type, Plain(topic), result)
    IN  /\ app = "modular" /\ pc[s] = "idle"
        /\ Len(analysis_history[s]) < MaxHistory
        /\ has_history' = [has_history EXCEPT ![s] = st.present]
        /\ analysis_history' = [analysis_history EXCEPT ![s] = st.list]
        /\ stored' = [stored EXCEPT ![s] = Append(@, <<type, Plain(topic), result>>)]
        /\ now' = ts
        /\ last' = Op("store", s, "", "", "none")
        /\ UNCHANGED <<app, env, client_cache, sent, request, inputs, query_count,
                       pc, inflight>>

----------------------------------------------------------------------------
(* The remote request returns or raises *)

\* Lines 176-197 and 265-283 of ui_components.py: what a tab does with the
\* value analyze_with_diffbot returned.
ModFinish(s, call, result, outcome, ts) ==
    LET st == store_analysis_result(has_history[s], analysis_history[s], ts,
                                    call.type, call.query, result)
    IN  /\ has_history' = [has_history EXCEPT ![s] = st.present]
        /\ analysis_history' = [analysis_history EXCEPT ![s] = st.list]
        /\ stored' = [stored EXCEPT ![s] = Append(@, <<call.type, call.query, result>>)]
        /\ now' = ts
        /\ last' = Op(call.tab, s, outcome, result, call.tab)
        /\ UNCHANGED query_count

\* The blocked script run of session s resumes with the endpoint's answer.
Completion(s, resp) ==
    LET call == inflight[s]
        outcome == IF resp.ok THEN "ok" ELSE "remote_error"
    IN  /\ pc[s] = "calling"
        /\ pc' = [pc EXCEPT ![s] = "idle"]
        /\ inflight' = [inflight EXCEPT ![s] = NoCall]
        /\ IF call.tab \in {"dash_ab", "dash_research", "dash_custom"}
           THEN \E ts \in Stamps :
                    DashFinish(s, call, dashboard_AnalyzeResult(resp), outcome, ts)
           ELSE IF call.tab \in {"mod_ab", "mod_research"}
           THEN \E ts \in Stamps :
                    ModFinish(s, call, AnalyzeResult(resp), outcome, ts)
           ELSE /\ last' = Op(call.tab, s, outcome, AnalyzeResult(resp), "none")
                /\ UNCHANGED <<now, history, query_count>>
        /\ UNCHANGED <<app, env, client_cache, sent, request, inputs>>

\* Mutant: a request that raised is sent once more.
CallReturnRetry(s, resp) ==
    IF ~resp.ok /\ sent < MaxRequests
    THEN /\ pc[s] = "calling"
         /\ sent' = sent + 1
         /\ last' = Op("send", s, "", "", "none")
         /\ UNCHANGED <<app, env, client_cache, request, now, inputs, history,
                        query_count, pc, inflight>>
    ELSE Completion(s, resp)

\* Mutant: a call that raised clears the pending call and leaves the action
\* in progress.
CallReturnKeepsSpinner(s, resp) ==
    IF resp.ok THEN Completion(s, resp)
    ELSE /\ pc[s] = "calling" /\ inflight[s] # NoCall
         /\ inflight' = [inflight EXCEPT ![s] = NoCall]
         /\ last' = Op(inflight[s].tab, s, "remote_error", AnalyzeResult(resp), "none")
         /\ UNCHANGED <<app, env, client_cache, sent, request, now, inputs, history,
                        query_count, pc>>

CallReturn(s, resp) == Completion(s, resp)

----------------------------------------------------------------------------

\* One step of the sessions in S.
Step(S) ==
    \/ \E s \in S, t \in Tokens \cup {NoToken} : DashEnterToken(s, t) /\ UNCHANGED lib
    \/ \E s \in S, t \in Topics \cup {EmptyTopic} : DashSetTopic(s, t) /\ UNCHANGED lib
    \/ \E s \in S, m \in DashboardModels : DashAbRun(s, m) /\ UNCHANGED lib
    \/ \E s \in S, m \in DashboardModels : DashResearchRun(s, m) /\ UNCHANGED lib
    \/ \E s \in S : DashExportAll(s) /\ UNCHANGED lib
    \/ \E s \in S : DashClearHistory(s) /\ UNCHANGED lib
    \/ \E s \in S, t \in Tokens \cup {NoToken}, clear \in BOOLEAN :
           render_sidebar(s, t, clear) /\ UNCHANGED lib
    \/ \E s \in S, t \in Topics \cup {EmptyTopic} : ModSetTopic(s, t) /\ UNCHANGED lib
    \/ \E s \in S, k \in Tokens \cup {NoToken}, m \in ModularModels :
           render_ab_test_tab(s, k, m) /\ UNCHANGED lib
    \/ \E s \in S, k \in Tokens \cup {NoToken}, m \in ModularModels :
           render_market_research_tab(s, k, m) /\ UNCHANGED lib
    \/ \E s \in S, x \in BOOLEAN : render_history_tab(s, x) /\ UNCHANGED lib
    \/ \E s \in S, t \in Topics, m \in ModularModels :
           analyze_with_diffbot(s, t, m) /\ UNCHANGED lib
    \/ \E s \in S, type \in StoredTypes, t \in Topics, r \in StoredResults,
          ts \in Stamps : StoreResult(s, type, t, r, ts) /\ UNCHANGED lib
    \/ \E s \in S, resp \in Responses : CallReturn(s, resp) /\ UNCHANGED lib

\* The claims about one session's state are checked with one session
\* acting; st.session_state is private to its session.
Next == Step({1})

Spec == Init /\ [][Next]_<<vars, lib>>

\* client.chat.completions.create blocks until the remote service answers or
\* the client raises (a refused connection, a timeout): a pending call is
\* always completed.
LiveSpec ==
    Spec /\ WF_<<vars, lib>>(\E resp \in Responses : CallReturn(1, resp) /\ UNCHANGED lib)

----------------------------------------------------------------------------
(* Two browser sessions served by one process.  Each session enters tokens,  *)
(* runs the A/B analysis with the default model, stores and clears; the      *)
(* steps of the two sessions interleave in any order.                        *)

DEFAULT_MODEL == "diffbot-small-xl"

TwoNext ==
    \/ \E s \in Sessions, t \in Tokens : DashEnterToken(s, t) /\ UNCHANGED lib
    \/ \E s \in Sessions : DashAbRun(s, DEFAULT_MODEL) /\ UNCHANGED lib
    \/ \E s \in Sessions : DashClearHistory(s) /\ UNCHANGED lib
    \/ \E s \in Sessions, clear \in BOOLEAN :
           render_sidebar(s, NoToken, clear) /\ UNCHANGED lib
    \/ \E s \in Sessions, t \in Topics :
           analyze_with_diffbot(s, t, DEFAULT_MODEL) /\ UNCHANGED lib
    \/ \E s \in Sessions, t \in Topics, r \in StoredResults, ts \in Stamps :
           StoreResult(s, "Market Research", t, r, ts) /\ UNCHANGED lib
    \/ \E s \in Sessions, resp \in Responses : CallReturn(s, resp) /\ UNCHANGED lib

TwoSpec == Init /\ [][TwoNext]_<<vars, lib>>

----------------------------------------------------------------------------
(* Python floats.  A float is an IEEE 754 binary64 number: a sign, the       *)
(* exponent of its leading bit and a significand of Precision bits, leading  *)
(* bit first; every operation returns the exact result rounded to the        *)
(* nearest such number, ties to the even significand.  The values met here   *)
(* are far from the exponent range's ends.                                   *)

Precision == 53

Zero == [sign |-> 0, exp |-> 0, bits |-> <<>>]

RECURSIVE Bits(_)
\* The binary digits of a positive integer, leading digit first.
Bits(n) == IF n = 1 THEN <<1>> ELSE Append(Bits(n \div 2), n % 2)

RECURSIVE Pow2(_)
Pow2(k) == IF k = 0 THEN 1 ELSE 2 * Pow2(k - 1)

\* The arithmetic on significands works on Chunk binary digits at a time.
Chunk == 11

\* The w binary digits of d (0 <= d < 2^w), and the integer w digits make.
Digits(d, w) == [i \in 1..w |-> (d \div Pow2(w - i)) % 2]

RECURSIVE Value(_)
Value(b) ==
    IF b = <<>> THEN 0 ELSE 2 * Value(SubSeq(b, 1, Len(b) - 1)) + b[Len(b)]

RECURSIVE Frac(_, _, _)
\* The first k binary digits of the fraction r/b (0 <= r < b) and the
\* remainder left after them.
Frac(r, b, k) ==
    IF k = 0 THEN [bits |-> <<>>, rem |-> r]
    ELSE LET w == IF k >= Chunk THEN Chunk ELSE k
             d == (r * Pow2(w)) \div b
             rest == Frac((r * Pow2(w)) % b, b, k - w)
         IN  [bits |-> Digits(d, w) \o rest.bits, rem |-> rest.rem]

RECURSIVE Lead(_, _)
\* The place of the first binary digit 1 of the fraction r/b (0 < r < b).
Lead(r, b) == IF 2 * r >= b THEN 1 ELSE 1 + Lead(2 * r, b)

\* A significand plus one unit in its last place (not all digits are 1).
Inc(b) ==
    LET p == CHOOSE i \in 1..Len(b) :
                 b[i] = 0 /\ \A j \in (i + 1)..Len(b) : b[j] = 1
    IN  [i \in 1..Len(b) |-> IF i < p THEN b[i] ELSE IF i = p THEN 1 ELSE 0]

\* The float nearest to the number whose binary digits are b (leading digit
\* 1, of exponent e) followed by digits that are all 0 unless sticky.
RoundToFloat(sign, b, e, sticky) ==
    LET digit(i) == IF i <= Len(b) THEN b[i] ELSE 0
        keep == [i \in 1..Precision |-> digit(i)]
        guard == digit(Precision + 1)
        rest == sticky \/ \E i \in (Precision + 2)..Len(b) : b[i] = 1
        up == guard = 1 /\ (rest \/ keep[Precision] = 1)
    IN  IF ~up THEN [sign |-> sign, exp |-> e, bits |-> keep]
        ELSE IF \A i \in 1..Precision : keep[i] = 1
        THEN [sign |-> sign, exp |-> e + 1,
              bits |-> [i \in 1..Precision |-> IF i = 1 THEN 1 ELSE 0]]
        ELSE [sign |-> sign, exp |-> e, bits |-> Inc(keep)]

\* a / b for Python ints with b > 0: the float nearest to the quotient.
TrueDiv(a, b) ==
    LET sign == IF a < 0 THEN 1 ELSE 0
        n == IF a < 0 THEN -a ELSE a
        q == n \div b
        r == n % b
    IN  IF n = 0 THEN Zero
        ELSE IF q > 0
        THEN LET ib == Bits(q)
                 f == Frac(r, b, Precision + 2)
             IN  RoundToFloat(sign, ib \o f.bits, Len(ib) - 1, f.rem # 0)
        ELSE LET k == Lead(r, b)
                 f == Frac(r * Pow2(k - 1), b, Precision + 2)
             IN  RoundToFloat(sign, f.bits, -k, f.rem # 0)

RECURSIVE MulCarry(_, _, _)
\* The binary digits of (the integer with digits b) * k + carry * 2^Len(b).
MulCarry(b, k, carry) ==
    IF b = <<>> THEN (IF carry = 0 THEN <<>> ELSE Bits(carry))
    ELSE LET w == IF Len(b) >= Chunk THEN Chunk ELSE Len(b)
             d == Value(SubSeq(b, Len(b) - w + 1, Len(b))) * k + carry
         IN  MulCarry(SubSeq(b, 1, Len(b) - w), k, d \div Pow2(w))
                 \o Digits(d % Pow2(w), w)

\* x * k for a float x and a Python int k >= 1: the float nearest to the
\* product.
Times(x, k) ==
    IF x = Zero THEN Zero
    ELSE LET prod == MulCarry(x.bits, k, 0)
         IN  RoundToFloat(x.sign, prod, x.exp + Len(prod) - Len(x.bits), FALSE)

\* x <= n for a float x and an integer n >= 1.
AtMost(x, n) ==
    LET nb == Bits(n)
        nbit(i) == IF i <= Len(nb) THEN nb[i] ELSE 0
    IN  \/ x = Zero \/ x.sign = 1
        \/ x.exp < Len(nb) - 1
        \/ /\ x.exp = Len(nb) - 1
           /\ \A i \in 1..Precision :
                  x.bits[i] > nbit(i) => \E j \in 1..(i - 1) : x.bits[j] < nbit(j)

----------------------------------------------------------------------------
(* data_utils.py / utils.py *)

\* calculate_conversion_rate(conversions, users): what the call produces.
Returned(v) == [status |-> "returned", value |-> v]
Raised(e) == [status |-> "raised", error |-> e]

calculate_conversion_rate(conversions, users) ==
    IF users > 0 THEN Returned(Times(TrueDiv(conversions, users), 100))
    ELSE Returned(Zero)

\* go.Bar(name=..., x=[...], y=[...], marker_color=...)
Bar(name, x, y, color) ==
    [type |-> "bar", name |-> name, x |-> x, y |-> y, marker_color |-> color]

\* go.Figure(data=[...]) after fig.update_layout(...)
Figure(data) ==
    [data |-> data,
     layout |-> [title |-> "A/B Test Conversion Rates Comparison",
                 yaxis_title |-> "Conversion Rate (%)",
                 barmode |-> "group", showlegend |-> TRUE]]

\* visualization.py and utils.py: the rates come from calculate_conversion_rate.
create_ab_test_visualization(control_users, control_conversions, treatment_users, treatment_conversions) ==
    LET control_rate ==
            calculate_conversion_rate(control_conversions, control_users).value
        treatment_rate ==
            calculate_conversion_rate(treatment_conversions, treatment_users).value
    IN  Returned(Figure(<<Bar("Control", <<"Conversion Rate (%)">>,
                             <<control_rate>>, "lightblue"),
                         Bar("Treatment", <<"Conversion Rate (%)">>,
                             <<treatment_rate>>, "lightcoral")>>))

\* Mutant: the treatment rate is taken over the control group's users.
dashboard_create_ab_test_visualization_mixed(control_users, control_conversions, treatment_users, treatment_conversions) ==
    LET control_rate ==
            IF control_users > 0
            THEN Times(TrueDiv(control_conversions, control_users), 100) ELSE Zero
        treatment_rate ==
            IF control_users > 0
            THEN Times(TrueDiv(treatment_conversions, control_users), 100) ELSE Zero
    IN  Returned(Figure(<<Bar("Control", <<"Conversion Rate (%)">>,
                             <<control_rate>>, "lightblue"),
                         Bar("Treatment", <<"Conversion Rate (%)">>,
                             <<treatment_rate>>, "lightcoral")>>))

\* analytics_dashboard.py lines 53-72: the rates are computed in place,
\* (conversions / users) * 100 if users > 0 else 0.
dashboard_create_ab_test_visualization(control_users, control_conversions, treatment_users, treatment_conversions) ==
    LET control_rate ==
            IF control_users > 0
            THEN Times(TrueDiv(control_conversions, control_users), 100) ELSE Zero
        treatment_rate ==
            IF treatment_users > 0
            THEN Times(TrueDiv(treatment_conversions, treatment_users), 100) ELSE Zero
    IN  Returned(Figure(<<Bar("Control", <<"Conversion Rate (%)">>,
                             <<control_rate>>, "lightblue"),
                         Bar("Treatment", <<"Conversion Rate (%)">>,
                             <<treatment_rate>>, "lightcoral")>>))

----------------------------------------------------------------------------
(* export_results_to_csv.  A text is the sequence of its characters.  A row  *)
(* is a Python dict: the sequence of its (key, value) items in insertion     *)
(* order; a value is a str or an int.                                        *)

StrValue(chars) == [kind |-> "str", chars |-> chars, n |-> 0]
IntValue(n) == [kind |-> "int", chars |-> <<>>, n |-> n]
NaN == [kind |-> "nan", chars |-> <<>>, n |-> 0]
Item(key, value) == [key |-> key, value |-> value]

HasKey(row, k) == \E i \in DOMAIN row : row[i].key = k
Get(row, k) ==
    IF HasKey(row, k) THEN row[CHOOSE i \in DOMAIN row : row[i].key = k].value
    ELSE NaN

RECURSIVE AddKeys(_, _)
\* cols extended by the keys of the items that are not in it yet.
AddKeys(cols, items) ==
    IF items = <<>> THEN cols
    ELSE AddKeys(IF \E i \in DOMAIN cols : cols[i] = items[1].key
                 THEN cols ELSE Append(cols, items[1].key),
                 SubSeq(items, 2, Len(items)))

\* A header taken from the first row alone.
ColumnsOfFirstRow(data) == IF data = <<>> THEN <<>> ELSE AddKeys(<<>>, data[1])

RECURSIVE Columns(_)
\* pd.DataFrame(data).columns for a list of dicts: the union of the keys in
\* the order they are first seen.
Columns(data) ==
    IF data = <<>> THEN <<>>
    ELSE AddKeys(Columns(SubSeq(data, 1, Len(data) - 1)), data[Len(data)])

\* The dtype pandas infers for column k: int64 for ints only, float64 for
\* ints with missing entries (NaN is a float), object otherwise.
Dtype(data, k) ==
    LET vals == {Get(data[r], k) : r \in DOMAIN data}
    IN  IF \A v \in vals : v.kind = "int" THEN "int64"
        ELSE IF \A v \in vals : v.kind \in {"int", "nan"} THEN "float64"
        ELSE "object"

DigitChar == <<"0", "1", "2", "3", "4", "5", "6", "7", "8", "9">>

RECURSIVE Decimal(_)
\* str(n) for an int n >= 0.
Decimal(n) ==
    IF n < 10 THEN <<DigitChar[n + 1]>>
    ELSE Append(Decimal(n \div 10), DigitChar[(n % 10) + 1])

\* The text to_csv writes for a value of a column: a missing entry as the
\* empty na_rep, a float with its fraction, anything else by str().
Format(v, dtype) ==
    IF v.kind = "nan" THEN <<>>
    ELSE IF v.kind = "str" THEN v.chars
    ELSE IF dtype = "float64" THEN Decimal(v.n) \o <<".", "0">>
    ELSE Decimal(v.n)

RECURSIVE Doubled(_)
\* Every quote character written twice.
Doubled(f) ==
    IF f = <<>> THEN <<>>
    ELSE (IF f[1] = "\"" THEN <<"\"", "\"">> ELSE <<f[1]>>)
             \o Doubled(SubSeq(f, 2, Len(f)))

\* csv.writer with QUOTE_MINIMAL: a field is quoted when it holds the
\* delimiter, the quote character or a line break, and when it is the empty
\* only field of its row.
Quoted(f, alone) ==
    IF (\E i \in DOMAIN f : f[i] \in {",", "\"", "\n", "\r"}) \/ (f = <<>> /\ alone)
    THEN <<"\"">> \o Doubled(f) \o <<"\"">>
    ELSE f

RECURSIVE Joined(_, _)
Joined(fields, alone) ==
    IF fields = <<>> THEN <<>>
    ELSE IF Len(fields) = 1 THEN Quoted(fields[1], alone)
    ELSE Quoted(fields[1], alone) \o <<",">>
             \o Joined(SubSeq(fields, 2, Len(fields)), alone)

WriteRow(fields) == Joined(fields, Len(fields) = 1) \o <<"\n">>

RECURSIVE WriteRows(_, _, _)
WriteRows(data, cols, n) ==
    IF n = 0 THEN <<>>
    ELSE WriteRows(data, cols, n - 1)
             \o WriteRow([c \in DOMAIN cols |->
                             Format(Get(data[n], cols[c]), Dtype(data, cols[c]))])

\* pd.DataFrame(data).to_csv(index=False): the header line, then one record
\* per row.
to_csv(data) ==
    LET cols == Columns(data)
    IN  WriteRow(cols) \o WriteRows(data, cols, Len(data))

\* The characters the texts of the model are written with, and ord() of each.
Alphabet == {"\n", "\r", "\"", ",", ".", "a", "k", "n"} \cup {DigitChar[i] : i \in 1..10}

Ord(c) ==
    CASE c = "\n" -> 10
      [] c = "\r" -> 13
      [] c = "\"" -> 34
      [] c = "," -> 44
      [] c = "." -> 46
      [] c = "a" -> 97
      [] c = "k" -> 107
      [] c = "n" -> 110
      [] OTHER -> 47 + (CHOOSE i \in 1..10 : DigitChar[i] = c)

\* str.encode() and bytes.decode(): UTF-8, one byte for each of these characters.
Encode(text) == [i \in DOMAIN text |-> Ord(text[i])]
Decode(bytes) == [i \in DOMAIN bytes |-> CHOOSE c \in Alphabet : Ord(c) = bytes[i]]

B64Alphabet ==
    <<"A", "B", "C", "D", "E", "F", "G", "H", "I", "J", "K", "L", "M", "N", "O", "P", "Q", "R", "S", "T", "U", "V", "W", "X", "Y", "Z", 
      "a", "b", "c", "d", "e", "f", "g", "h", "i", "j", "k", "l", "m", "n", "o", "p", "q", "r", "s", "t", "u", "v", "w", "x", "y", "z", 
      "0", "1", "2", "3", "4", "5", "6", "7", "8", "9", "+", "/">>

\* base64.b64encode: every three bytes as four characters of six bits each,
\* the last group padded with "=".
b64encode(bytes) ==
    LET n == Len(bytes)
        byte(i) == IF i <= n THEN bytes[i] ELSE 0
        group(q) == byte(3 * q + 1) * 65536 + byte(3 * q + 2) * 256 + byte(3 * q + 3)
        char(j) ==
            LET q == (j - 1) \div 4
                r == (j - 1) % 4
                six == CASE r = 0 -> group(q) \div 262144
                         [] r = 1 -> (group(q) \div 4096) % 64
                         [] r = 2 -> (group(q) \div 64) % 64
                         [] r = 3 -> group(q) % 64
            IN  IF 3 * q + r > n THEN "=" ELSE B64Alphabet[six + 1]
    IN  [j \in 1..(4 * ((n + 2) \div 3)) |-> char(j)]

\* base64.b64decode, as the browser applies it to the data URL.
b64decode(chars) ==
    LET six(c) == IF c = "=" THEN 0
                  ELSE (CHOOSE i \in 1..64 : B64Alphabet[i] = c) - 1
        pad == Cardinality({j \in DOMAIN chars : chars[j] = "="})
        group(q) == six(chars[4 * q + 1]) * 262144 + six(chars[4 * q + 2]) * 4096
                    + six(chars[4 * q + 3]) * 64 + six(chars[4 * q + 4])
        byte(i) ==
            LET q == (i - 1) \div 3
                r == (i - 1) % 3
            IN  CASE r = 0 -> group(q) \div 65536
                  [] r = 1 -> (group(q) \div 256) % 256
                  [] r = 2 -> group(q) % 256
    IN  [i \in 1..(3 * (Len(chars) \div 4) - pad) |-> byte(i)]

\* export_results_to_csv(data, filename): the download link, its two
\* interpolated parts kept apart.
export_results_to_csv(data, filename) ==
    LET csv == to_csv(data)
        b64 == b64encode(Encode(csv))
    IN  Returned([href |-> [scheme |-> "data:file/csv;base64,", data |-> b64],
                  download |-> filename])

\* The n-th smallest element of a set of integers.
Nth(S, n) == CHOOSE i \in S : Cardinality({j \in S : j < i}) = n - 1

\* What the file behind the link holds, read as CSV (RFC 4180): a comma or a
\* line break ends a field unless it stands between quotes; a quoted field
\* loses its outer quotes and has every doubled quote read as one.
Unquoted(raw) ==
    IF raw # <<>> /\ raw[1] = "\""
    THEN LET inner == SubSeq(raw, 2, Len(raw) - 1)
             kept == {i \in DOMAIN inner :
                         \/ inner[i] # "\""
                         \/ Cardinality({j \in 1..i : inner[j] = "\""}) % 2 = 0}
         IN  [n \in 1..Cardinality(kept) |-> inner[Nth(kept, n)]]
    ELSE raw

\* The fields of text[from..to], split at the places in seps.
Split(text, from, to, seps) ==
    LET inside == {i \in seps : from <= i /\ i <= to}
        start(n) == IF n = 1 THEN from ELSE Nth(inside, n - 1) + 1
        stop(n) == IF n = Cardinality(inside) + 1 THEN to ELSE Nth(inside, n) - 1
    IN  [n \in 1..(Cardinality(inside) + 1) |-> <<start(n), stop(n)>>]

read_csv(text) ==
    LET open(i) == Cardinality({j \in 1..(i - 1) : text[j] = "\""}) % 2 = 1
        commas == {i \in DOMAIN text : text[i] = "," /\ ~open(i)}
        breaks == {i \in DOMAIN text : text[i] = "\n" /\ ~open(i)}
        line(n) == <<IF n = 1 THEN 1 ELSE Nth(breaks, n - 1) + 1, Nth(breaks, n) - 1>>
        fields(n) == Split(text, line(n)[1], line(n)[2], commas)
    IN  [n \in 1..Cardinality(breaks) |->
            [c \in DOMAIN fields(n) |->
                Unquoted(SubSeq(text, fields(n)[c][1], fields(n)[c][2]))]]

\* The records a consumer of the link gets.
Downloaded(link) == read_csv(Decode(b64decode(link.href.data)))

\* The function called on its own with rows of one or two items.
CsvKeys == {<<"k">>, <<"n">>}
CsvValues == {StrValue(<<"a">>), StrValue(<<",", "\"", "\n">>), IntValue(10 * MaxUsers)}
ExportRows ==
    {<<Item(k, v)>> : k \in CsvKeys, v \in CsvValues}
        \cup {<<Item(r[1], r[3]), Item(r[2], r[4])>> :
                 r \in {q \in CsvKeys \X CsvKeys \X CsvValues \X CsvValues : q[1] # q[2]}}
CsvCalls ==
    [fn : {"export_results_to_csv"},
     args : (UNION {[1..m -> ExportRows] : m \in 1..MaxRows}) \X {"report.csv"}]

\* The first export is of one row.
CsvInit ==
    /\ Started /\ app = "modular" /\ env = NoToken
    /\ lib_call \in CsvCalls
    /\ Len(lib_call.args[1]) = 1
    /\ lib_result = NotCalled

CallExport ==
    /\ lib_call.fn = "export_results_to_csv"
    /\ lib_result = NotCalled
    /\ lib_result' = export_results_to_csv(lib_call.args[1], lib_call.args[2])
    /\ UNCHANGED <<lib_call, vars>>

\* The caller's list has grown by one row and is exported again.
NextExport ==
    /\ lib_result # NotCalled
    /\ Len(lib_call.args[1]) < MaxRows
    /\ \E row \in ExportRows :
           lib_call' = [lib_call EXCEPT !.args[1] = Append(@, row)]
    /\ lib_result' = NotCalled
    /\ UNCHANGED vars

CsvNext == CallExport \/ NextExport

CsvSpec == CsvInit /\ [][CsvNext]_<<vars, lib>>

\* The function called on its own, with any two integers.
RateInputs == (-1)..MaxUsers
RateCalls == [fn : {"calculate_conversion_rate"}, args : RateInputs \X RateInputs]

RateInit ==
    /\ Started /\ app = "modular" /\ env = NoToken
    /\ lib_call \in RateCalls
    /\ lib_result = NotCalled

CallRate ==
    /\ lib_call.fn = "calculate_conversion_rate"
    /\ lib_result' = calculate_conversion_rate(lib_call.args[1], lib_call.args[2])
    /\ UNCHANGED <<lib_call, vars>>

NextRateCall ==
    /\ lib_result # NotCalled
    /\ lib_call' \in RateCalls
    /\ lib_result' = NotCalled
    /\ UNCHANGED vars

RateNext == CallRate \/ NextRateCall

RateSpec == RateInit /\ [][RateNext]_<<vars, lib>>

\* The chart function of each module, called on its own.
ChartModules == {"visualization", "utils", "analytics_dashboard"}
ChartInputs == {0, 1, 3, MaxUsers}
ChartCalls ==
    [fn : {"create_ab_test_visualization"}, module : ChartModules,
     args : ChartInputs \X ChartInputs \X ChartInputs \X ChartInputs]

ChartInit ==
    /\ Started /\ app = "modular" /\ env = NoToken
    /\ lib_call \in ChartCalls
    /\ lib_result = NotCalled

CallChart ==
    LET a == lib_call.args
    IN  /\ lib_call.fn = "create_ab_test_visualization"
        /\ lib_result' =
              IF lib_call.module = "analytics_dashboard"
              THEN dashboard_create_ab_test_visualization(a[1], a[2], a[3], a[4])
              ELSE create_ab_test_visualization(a[1], a[2], a[3], a[4])
        /\ UNCHANGED <<lib_call, vars>>

NextChartCall ==
    /\ lib_result # NotCalled
    /\ lib_call' \in ChartCalls
    /\ lib_result' = NotCalled
    /\ UNCHANGED vars

ChartNext == CallChart \/ NextChartCall

ChartSpec == ChartInit /\ [][ChartNext]_<<vars, lib>>

----------------------------------------------------------------------------
(* The four number inputs of the A/B tab.  groups[s] is <<control users,     *)
(* control conversions, treatment users, treatment conversions>>; every      *)
(* script run shows the two rates, and a run puts the four numbers into the  *)
(* prompt, the history record and the export row.  The user edits the       *)
(* fields in any order and runs the analysis once.                           *)

GroupValues == {0, 1, MaxUsers}
UsersFields == {1, 3}
ConversionsFields == {2, 4}

\* The widget's min_value: 1 for a users field, 0 for a conversions field.
MinValue(i) == IF i \in UsersFields THEN 1 ELSE 0

Min(a, b) == IF a <= b THEN a ELSE b

\* Dashboard (lines 139-149): the fields have a min_value and no max_value.
DashSetGroup(s, i, v) ==
    /\ app = "dashboard" /\ pc[s] = "idle"
    /\ v >= MinValue(i)
    /\ groups' = [groups EXCEPT ![s][i] = v]
    /\ env' = SidebarEnv(ApiKey(s))
    /\ last' = Op("set_group", s, "", "", "none")
    /\ UNCHANGED <<app, client_cache, sent, request, now, api_input, stored_api_key,
                   research_topic, history, query_count, pc, inflight>>

\* ui_components.py lines 103-135: a conversions field takes 0..users.  Its
\* max_value and value arguments are computed from the users field, so a new
\* users value makes it a new widget showing min(default, users); a field
\* whose arguments did not change keeps what the user entered.
ModSetGroup(s, i, v, keep) ==
    /\ app = "modular" /\ pc[s] = "idle"
    /\ v >= MinValue(i)
    /\ IF i \in UsersFields
       THEN LET c == IF keep /\ (v = groups[s][i] \/ groups[s][i + 1] <= v)
                     THEN groups[s][i + 1]
                     ELSE Min(DefaultGroups[i + 1], v)
            IN  groups' = [groups EXCEPT ![s][i] = v, ![s][i + 1] = c]
       ELSE /\ v <= groups[s][i - 1]
            /\ groups' = [groups EXCEPT ![s][i] = v]
    /\ last' = Op("set_group", s, "", "", "none")
    /\ UNCHANGED <<process, api_input, stored_api_key, research_topic, history,
                   query_count, pc, inflight>>

AbInit == Init /\ env = "tokA"

AbNext ==
    \/ \E s \in {1}, i \in 1..4, v \in GroupValues :
           DashSetGroup(s, i, v) /\ UNCHANGED lib
    \/ \E s \in {1}, i \in 1..4, v \in GroupValues, keep \in BOOLEAN :
           ModSetGroup(s, i, v, keep) /\ UNCHANGED lib
    \/ \E s \in {1} : sent = 0 /\ DashAbRun(s, DEFAULT_MODEL) /\ UNCHANGED lib
    \/ \E s \in {1} : render_ab_test_tab(s, "tokA", DEFAULT_MODEL) /\ UNCHANGED lib
    \/ \E s \in {1}, resp \in Responses : CallReturn(s, resp) /\ UNCHANGED lib

AbSpec == AbInit /\ [][AbNext]_<<vars, lib>>

----------------------------------------------------------------------------
(* One script run of the A/B tab, statement by statement.  lib_call is the   *)
(* run's frame (the function, the statement it is at, the api_key it was     *)
(* given) and lib_result lists what the run has done so far.  The user       *)
(* edits the fields before the first analysis; every run presses the        *)
(* button.                                                                   *)

\* The two rates a script run shows for the groups g.
ShownRates(g) ==
    <<calculate_conversion_rate(g[2], g[1]).value,
      calculate_conversion_rate(g[4], g[3]).value>>

\* The frames a script run starts with.  The dashboard reads api_key from
\* the sidebar field, the modular tab gets it as its argument.
Frames ==
    {[fn |-> IF app = "dashboard" THEN "main" ELSE "render_ab_test_tab",
      at |-> "rates", api_key |-> k] :
         k \in IF app = "dashboard" THEN {ApiKey(1)} ELSE Tokens \cup {NoToken}}

OrderInit ==
    /\ Started
    /\ lib_call \in Frames
    /\ lib_result = [status |-> "running", steps |-> <<>>]

\* A field is edited: the script runs again from the top.
AbEdit ==
    /\ lib_call.at = "rates" /\ lib_result.steps = <<>> /\ sent = 0
    /\ \E i \in 1..4, v \in GroupValues :
           DashSetGroup(1, i, v) \/ ModSetGroup(1, i, v, TRUE)
    /\ UNCHANGED lib

\* control_rate and treatment_rate (analytics_dashboard.py 143 and 152,
\* ui_components.py 116 and 135).
AbRates ==
    /\ lib_call.at = "rates"
    /\ lib_call' = [lib_call EXCEPT !.at = "chart"]
    /\ lib_result' = [lib_result EXCEPT !.steps =
                          Append(@, [step |-> "rates", value |-> ShownRates(groups[1])])]
    /\ UNCHANGED vars

\* create_ab_test_visualization: the dashboard draws the chart on every
\* script run (160-162), the modular tab once the button is pressed and the
\* token guard is passed (141-151).
AbChart ==
    /\ lib_call.at = "chart"
    /\ app = "modular" => lib_call.api_key # NoToken
    /\ lib_call' = [lib_call EXCEPT !.at = "button"]
    /\ lib_result' =
           LET g == groups[1]
               fig == IF app = "dashboard"
                      THEN dashboard_create_ab_test_visualization(g[1], g[2], g[3], g[4])
                      ELSE create_ab_test_visualization(g[1], g[2], g[3], g[4])
           IN  [lib_result EXCEPT !.steps =
                    Append(@, [step |-> "chart", value |-> fig.value])]
    /\ UNCHANGED vars

\* What a step of the run did to the session, in the order of the statements:
\* the request, the record appended, the export link shown.
Effects ==
    (IF sent' = sent + 1 THEN <<[step |-> "call", value |-> request'.wire]>> ELSE <<>>)
        \o (IF Len(analysis_history'[1]) = Len(analysis_history[1]) + 1
            THEN <<[step |-> "history", value |-> analysis_history'[1][Len(analysis_history'[1])]]>>
            ELSE <<>>)
        \o (IF last'.export # "none"
            THEN <<[step |-> "export", value |-> [data |-> last'.export, result |-> last'.msg]]>>
            ELSE <<>>)
        \o (IF last'.outcome \in {"missing_credential", "exception"}
            THEN <<[step |-> "error", value |-> last'.msg]>> ELSE <<>>)

\* The button: the token guard, the prompt and analyze_with_diffbot up to
\* the request (analytics_dashboard.py 164-180, ui_components.py 140-175).
AbPress ==
    /\ \/ lib_call.at = "button"
       \/ lib_call.at = "chart" /\ app = "modular" /\ lib_call.api_key = NoToken
    /\ \/ \E m \in DashboardModels : DashAbRun(1, m)
       \/ \E m \in ModularModels : render_ab_test_tab(1, lib_call.api_key, m)
    /\ lib_call' = [lib_call EXCEPT !.at = IF pc'[1] = "calling" THEN "spinner"
                                           ELSE "done"]
    /\ lib_result' = [lib_result EXCEPT !.steps = @ \o Effects]

\* The request returns or raises and the run goes on inside the spinner
\* (analytics_dashboard.py 181-210, ui_components.py 176-200).
AbReturn ==
    /\ lib_call.at = "spinner"
    /\ \E resp \in Responses : CallReturn(1, resp)
    /\ lib_call' = [lib_call EXCEPT !.at = "done"]
    /\ lib_result' = [lib_result EXCEPT !.steps = @ \o Effects]

\* The next script run.
AbRerun ==
    /\ lib_call.at = "done"
    /\ lib_call' \in Frames
    /\ lib_result' = [status |-> "running", steps |-> <<>>]
    /\ UNCHANGED vars

OrderNext == AbEdit \/ AbRates \/ AbChart \/ AbPress \/ AbReturn \/ AbRerun

OrderSpec == OrderInit /\ [][OrderNext]_<<vars, lib>>

----------------------------------------------------------------------------
(* The dashboard with its three run tabs, one session acting.               *)

CountInit == Init /\ app = "dashboard"

CountNext ==
    \/ \E t \in Tokens \cup {NoToken} : DashEnterToken(1, t) /\ UNCHANGED lib
    \/ \E t \in Topics \cup {EmptyTopic} : DashSetTopic(1, t) /\ UNCHANGED lib
    \/ \E m \in DashboardModels : DashAbRun(1, m) /\ UNCHANGED lib
    \/ \E m \in DashboardModels : DashResearchRun(1, m) /\ UNCHANGED lib
    \/ \E f \in [name : {"data.csv"}, readable : BOOLEAN], r \in Topics \cup {""},
          m \in DashboardModels : DashCustomRun(1, f, r, m) /\ UNCHANGED lib
    \/ DashExportAll(1) /\ UNCHANGED lib
    \/ DashClearHistory(1) /\ UNCHANGED lib
    \/ \E resp \in Responses : CallReturn(1, resp) /\ UNCHANGED lib

CountSpec == CountInit /\ [][CountNext]_<<vars, lib>>

----------------------------------------------------------------------------
(* Properties *)

RunTabs == {"dash_ab", "dash_research", "mod_ab", "mod_research"}
Grew(h, h2) == Len(h2) = Len(h) + 1 /\ SubSeq(h2, 1, Len(h)) = h

\* C1: the history of a session holds exactly the records stored since the
\* last clear (or since the session began, the list being absent then), their
\* (type, query, result) in call order, oldest first.
HistoryInCallOrder ==
    \A s \in Sessions :
        /\ Triples(analysis_history[s]) = stored[s]
        /\ stored[s] # <<>> => has_history[s]

HistoryInCallOrderWitness ==
    \E s \in Sessions :
        /\ app = "modular"
        /\ Len(stored[s]) = 2
        /\ stored[s][1] # stored[s][2]
        /\ last.op = "store"

\* C2: in every step the history of a session stays as it is, gains exactly
\* one record at its end, or (on Clear History) becomes empty; rendering the
\* history view and exporting never change it.
HistoryAppendOnly ==
    [][\A s \in Sessions :
          \/ analysis_history'[s] = analysis_history[s]
          \/ Grew(analysis_history[s], analysis_history'[s])
          \/ /\ analysis_history'[s] = <<>>
             /\ last'.op = "clear" /\ last'.session = s]_vars

HistoryAppendOnlyWitness ==
    \E s \in Sessions :
        /\ last.op = "history_tab" /\ last.export = "all_analyses"
        /\ last.session = s
        /\ Len(analysis_history[s]) = 2
        /\ analysis_history[s][1] # analysis_history[s][2]

\* C3: Clear History leaves the history empty whatever it held, and the
\* first record stored after it is then the only record.
ClearEmptiesHistory ==
    [][\A s \in Sessions :
          /\ (last'.op = "clear" /\ last'.session = s)
                 => (analysis_history'[s] = <<>> /\ has_history'[s])
          /\ (last.op = "clear" /\ last.session = s
                 /\ analysis_history'[s] # analysis_history[s])
                 => (/\ Len(analysis_history'[s]) = 1
                     /\ Triples(analysis_history'[s]) = stored'[s])]_vars

ClearEmptiesHistoryWitness ==
    \E s \in Sessions :
        /\ app = "dashboard"
        /\ sent = 2 /\ pc[s] = "idle"
        /\ last.op \in RunTabs /\ last.session = s
        /\ Len(analysis_history[s]) = 1


KindOf(tab) == IF tab \in {"dash_ab", "mod_ab"} THEN "A/B Test" ELSE "Market Research"

\* The credential that resolves for a query session s makes now: the sidebar
\* token, else the environment variable.
CredentialNow(s) == IF app = "dashboard" THEN SidebarEnv(ApiKey(s)) ELSE env

\* C4: every run action that reaches the call to analyze_with_diffbot ends
\* with exactly one record appended to the history, of the run's kind and
\* query and with the returned result, whether the call succeeded or failed.
RunAppendsOneRecord ==
    [][\A s \in Sessions :
          (/\ last'.op \in RunTabs /\ last'.session = s
           /\ last'.outcome \in {"ok", "remote_error", "exception"})
          => /\ Grew(analysis_history[s], analysis_history'[s])
             /\ LET r == analysis_history'[s][Len(analysis_history'[s])]
                IN  /\ r.type = KindOf(last'.op)
                    /\ r.result = last'.msg
                    /\ pc[s] = "calling" => r.query = inflight[s].query]_vars

\* C5: the history is appended to only once the call has returned: no step
\* that leaves a call in progress changes the history, and a run's record
\* is appended in the step in which its call returns.
AppendAfterReturn ==
    [][\A s \in Sessions :
          /\ pc'[s] = "calling"
                => (/\ analysis_history'[s] = analysis_history[s]
                    /\ has_history'[s] = has_history[s])
          /\ (/\ last'.op \in RunTabs /\ last'.session = s
              /\ analysis_history'[s] # analysis_history[s])
                => (pc[s] = "calling" /\ pc'[s] = "idle")]_vars

AppendAfterReturnWitness ==
    \E s \in Sessions : pc[s] = "calling" /\ Len(analysis_history[s]) = 1

\* C6: a failed run (no token, remote error, empty topic, exception raised
\* by the call) shows a message, keeps every earlier record of the history
\* in place and leaves the form inputs as they were.
FailureKeepsState ==
    [][\A s \in Sessions :
          (/\ last'.op \in RunTabs /\ last'.session = s
           /\ last'.outcome \in {"missing_credential", "remote_error",
                                 "empty_topic", "exception"})
          => /\ last'.msg # ""
             /\ IsPrefix(analysis_history[s], analysis_history'[s])
             /\ has_history[s] => has_history'[s]
             /\ UNCHANGED inputs]_vars

FailureKeepsStateWitness ==
    \E s \in Sessions :
        /\ last.op \in RunTabs /\ last.session = s
        /\ last.outcome = "remote_error"
        /\ Len(analysis_history[s]) = 2

\* C7: no request is sent without a credential: every request carries a
\* non-empty key and is sent while a credential resolves; a query made with
\* no explicit token and no environment variable ends as missing credential
\* with no request sent; a run pressed with an empty sidebar token sends none.
CredentialBeforeRequest ==
    [][/\ sent' # sent
            => (/\ request'.wire.api_key # NoToken
                /\ request'.resolved # NoToken)
       /\ \A s \in Sessions :
            /\ (/\ pc[s] = "idle" /\ last'.session = s
                /\ last'.op \in {"api", "send"}
                /\ CredentialNow(s) = NoToken)
                  => (sent' = sent /\ last'.outcome = "missing_credential")
            /\ (/\ pc[s] = "idle" /\ last'.session = s /\ last'.op \in RunTabs
                /\ app = "dashboard" /\ ApiKey(s) = NoToken)
                  => (sent' = sent /\ pc'[s] = "idle")
            /\ (last'.session = s /\ last'.msg = ERROR_SIDEBAR_TOKEN)
                  => (sent' = sent /\ pc'[s] = pc[s])]_vars

CredentialBeforeRequestWitness ==
    /\ app = "modular" /\ env = NoToken
    /\ last.op = "api" /\ last.outcome = "missing_credential"
    /\ client_cache.cached /\ sent = 0

\* C8: a request whose caller supplied an explicit token is authenticated
\* with that token, whatever the environment variable held.
ExplicitTokenUsed ==
    (sent > 0 /\ request.explicit # NoToken)
        => request.wire.api_key = request.explicit

\* C9: each query is sent with the credential that resolves when it is made,
\* whatever tokens were present at earlier queries, and a query for which a
\* credential resolves is not answered as missing credential.
CredentialResolvedAtQuery ==
    [][\A s \in Sessions :
          /\ (sent' # sent /\ request'.by = s)
                => request'.wire.api_key = CredentialNow(s)
          /\ (/\ pc[s] = "idle" /\ last'.session = s
              /\ last'.msg = ERROR_CONFIGURE_TOKEN)
                => CredentialNow(s) = NoToken]_vars

RemoteFailureTyped ==
    [][\A s \in Sessions :
          (pc[s] = "calling" /\ pc'[s] = "idle" /\ last'.session = s)
          => /\ last'.outcome = "ok" => last'.msg \in Replies
             /\ last'.outcome = "remote_error"
                   => /\ \E f \in Failures : last'.msg = "Error: " \o f
                      /\ last'.msg \notin Replies]_vars


ResearchTabs == {"dash_research", "mod_research"}

\* C13: Research Topic pressed while the topic is empty shows the validation
\* message and does nothing else: the client is not asked for, no request is
\* sent, the history and the counter stay as they are and the session stays
\* idle, with or without a token.
EmptyTopicRefused ==
    [][\A s \in Sessions :
          (/\ pc[s] = "idle" /\ last'.session = s
           /\ \/ last'.op \in ResearchTabs
              \/ last'.op = "send" /\ inflight'[s].tab \in ResearchTabs
           /\ research_topic[s] = EmptyTopic)
          => /\ last'.outcome = "empty_topic"
             /\ last'.msg = ERROR_ENTER_TOPIC
             /\ UNCHANGED <<client_cache, sent, request, history, query_count,
                            pc, inflight>>]_vars

EmptyTopicRefusedWitness ==
    \E s \in Sessions :
        /\ app = "dashboard" /\ ApiKey(s) \in Tokens
        /\ last.session = s /\ last.outcome = "empty_topic"
        /\ Len(analysis_history[s]) = 1


\* C12: the sessions are isolated: a step of one session (a token entered,
\* a run, an append, a clear) changes neither the history of the other
\* session nor the credential the other session's next request resolves to.
SessionsIsolated ==
    [][\A s \in Sessions, o \in Sessions :
          (s # o /\ last'.session = s)
          => /\ analysis_history'[o] = analysis_history[o]
             /\ has_history'[o] = has_history[o]
             /\ CredentialNow(o)' = CredentialNow(o)]_vars


\* C14: for users > 0 and 0 <= conversions <= users the rate returned is
\* 100 * conversions / users (the float nearest to that quotient), for
\* users = 0 it is 0, and a call changes nothing but its own result.
RateIsPercentage ==
    /\ [](lib_result # NotCalled =>
            LET c == lib_call.args[1]
                u == lib_call.args[2]
            IN  /\ (u > 0 /\ 0 <= c /\ c <= u)
                      => lib_result = Returned(TrueDiv(100 * c, u))
                /\ u = 0 => lib_result = Returned(Zero))
    /\ [][(lib_result = NotCalled /\ lib_result' # NotCalled)
            => UNCHANGED <<vars, lib_call>>]_<<vars, lib>>

\* C15: called with conversions > users or with a negative argument, the
\* function raises InvalidInput and returns no rate.
InvalidInputRejected ==
    lib_result # NotCalled =>
        LET c == lib_call.args[1]
            u == lib_call.args[2]
        IN  (c > u \/ c < 0 \/ u < 0)
                => (lib_result.status = "raised" /\ lib_result.error = "InvalidInput")


\* The two rates the page shows for the group values g.
GroupOk(g) ==
    /\ g[1] >= 1 /\ g[3] >= 1
    /\ 0 <= g[2] /\ g[2] <= g[1]
    /\ 0 <= g[4] /\ g[4] <= g[3]
    /\ \A i \in 1..2 : ShownRates(g)[i].sign = 0 /\ AtMost(ShownRates(g)[i], 100)

\* C16: whatever the user edits, the group values that are shown, put into
\* the prompt that is sent, or stored with a run satisfy
\* 0 <= conversions <= users and users >= 1, and their rates lie in 0..100.
GroupInvariant ==
    \A s \in Sessions :
        /\ GroupOk(groups[s])
        /\ (sent > 0 /\ request.wire.messages[1].content.groups # NoGroups)
              => GroupOk(request.wire.messages[1].content.groups)
        /\ \A n \in 1..Len(analysis_history[s]) :
              analysis_history[s][n].query.groups # NoGroups
                 => GroupOk(analysis_history[s][n].query.groups)


\* C17: the chart built from two (users, conversions) pairs has exactly two
\* bar series, Control then Treatment, each over the one category
\* 'Conversion Rate (%)', with the values calculate_conversion_rate gives for
\* the control pair and for the treatment pair, drawn as grouped bars; building
\* it changes nothing else.
ChartShowsBothRates ==
    /\ [](lib_result # NotCalled =>
            LET a == lib_call.args
                fig == lib_result.value
            IN  /\ lib_result.status = "returned"
                /\ Len(fig.data) = 2
                /\ \A i \in 1..2 : /\ fig.data[i].type = "bar"
                                   /\ fig.data[i].x = <<"Conversion Rate (%)">>
                /\ fig.data[1].name = "Control"
                /\ fig.data[2].name = "Treatment"
                /\ fig.data[1].y = <<calculate_conversion_rate(a[2], a[1]).value>>
                /\ fig.data[2].y = <<calculate_conversion_rate(a[4], a[3]).value>>
                /\ fig.layout.barmode = "group")
    /\ [][(lib_result = NotCalled /\ lib_result' # NotCalled)
            => UNCHANGED <<vars, lib_call>>]_<<vars, lib>>

ChartShowsBothRatesWitness ==
    /\ lib_call \in ChartCalls
    /\ lib_call.module = "analytics_dashboard"
    /\ lib_call.args = <<3, 1, MaxUsers, 3>>
    /\ lib_result # NotCalled
    /\ lib_result.value.data[1].y # lib_result.value.data[2].y


\* The keys of the rows of data.
KeysOf(data) == {k \in CsvKeys : \E n \in DOMAIN data : HasKey(data[n], k)}

\* Where key k is first seen in data: <<row, place in the row>>.
FirstSeen(data, k) ==
    LET r == CHOOSE n \in DOMAIN data :
                 HasKey(data[n], k) /\ \A m \in 1..(n - 1) : ~HasKey(data[m], k)
    IN  <<r, CHOOSE i \in DOMAIN data[r] : data[r][i].key = k>>
Before(a, b) == a[1] < b[1] \/ (a[1] = b[1] /\ a[2] < b[2])

\* C18: an export of rows with any key sets does not fail; the file's header
\* holds every key of the rows once, in the order the keys are first seen;
\* one record follows for each row, in the rows' order, with as many cells
\* as the header, a row's texts in the cells of its keys and an empty cell
\* for each key the row lacks.
CsvHeaderIsUnion ==
    lib_result # NotCalled =>
        \A data \in {lib_call.args[1]}, recs \in {Downloaded(lib_result.value)} :
        LET head == recs[1]
        IN  /\ lib_result.status = "returned"
            /\ {head[c] : c \in DOMAIN head} = KeysOf(data)
            /\ Len(head) = Cardinality(KeysOf(data))
            /\ \A c \in DOMAIN head, d \in DOMAIN head :
                   c < d => Before(FirstSeen(data, head[c]), FirstSeen(data, head[d]))
            /\ Len(recs) = Len(data) + 1
            /\ \A n \in DOMAIN data :
                   /\ Len(recs[n + 1]) = Len(head)
                   /\ \A c \in DOMAIN head :
                          LET v == Get(data[n], head[c])
                          IN  /\ v.kind = "nan" <=> recs[n + 1][c] = <<>>
                              /\ v.kind = "str" => recs[n + 1][c] = v.chars

CsvHeaderIsUnionWitness ==
    /\ lib_call \in CsvCalls
    /\ lib_result # NotCalled
    /\ LET data == lib_call.args[1]
       IN  /\ Len(data) = 2
           /\ Len(data[1]) = 1 /\ Len(data[2]) = 1
           /\ data[1][1].key = <<"n">> /\ data[2][1].key = <<"k">>
           /\ data[1][1].value = StrValue(<<",", "\"", "\n">>)
           /\ Downloaded(lib_result.value)[1] = <<<<"n">>, <<"k">>>>

\* C19: reading the exported file back gives, row by row, the (key, value)
\* pairs that were written: the text of each value a row holds (str() of an
\* integer count) under its key, and the empty text under each key the row
\* lacks.
CsvRoundTrip ==
    lib_result # NotCalled =>
        \A data \in {lib_call.args[1]}, recs \in {Downloaded(lib_result.value)} :
        LET head == recs[1]
            text(v) == IF v.kind = "int" THEN Decimal(v.n) ELSE v.chars
        IN  /\ Len(recs) = Len(data) + 1
            /\ \A n \in DOMAIN data :
                   {<<head[c], recs[n + 1][c]>> : c \in DOMAIN head}
                       = {<<k, text(Get(data[n], k))>> : k \in KeysOf(data)}

\* C20: a run action that is in progress waiting for the remote call leaves
\* the in-progress state when the call returns or raises: the step that takes
\* the call's outcome, success or failure, puts the session back in the idle
\* state (the state the run actions and the inputs are enabled in), and every
\* session in progress is eventually idle again.
SpinnerEnds ==
    /\ [][\A s \in Sessions :
              (pc[s] = "calling" /\ inflight[s] # NoCall /\ inflight'[s] = NoCall)
                  => pc'[s] = "idle"]_<<vars, lib>>
    /\ \A s \in {1} : (pc[s] = "calling") ~> (pc[s] = "idle")

SpinnerEndsWitness ==
    /\ pc[1] = "idle" /\ inflight[1] = NoCall
    /\ last.session = 1 /\ last.outcome = "remote_error"
    /\ last.op \in {"dash_ab", "dash_research"}

\* C21: a finished run of the A/B action with a token and with
\* conversions <= users in both groups has computed the rates, built the
\* chart, sent the request, appended the history record and shown the export
\* link, in this order, the record and the link holding the result the
\* request produced.
RunInOrder ==
    LET steps == lib_result.steps
    IN  (/\ lib_call.at = "done"
         /\ lib_call.api_key # NoToken
         /\ GroupOk(groups[1]))
            => /\ [i \in DOMAIN steps |-> steps[i].step]
                      = <<"rates", "chart", "call", "history", "export">>
               /\ steps[4].value.result = last.msg
               /\ steps[5].value.result = last.msg
               /\ last.outcome \in {"ok", "remote_error"}

\* C22: in the dashboard, whatever runs (A/B test, market research, custom
\* analysis), refused runs and Clear History a session has made, its
\* query_count is the number of records of its analysis_history (none while
\* the list is absent): a step that changes one changes the other with it.
CountMatchesHistory ==
    app = "dashboard" =>
        \A s \in Sessions :
            /\ query_count[s] = Len(analysis_history[s])
            /\ ~has_history[s] => analysis_history[s] = <<>>

CountMatchesHistoryWitness ==
    /\ app = "dashboard" /\ sent = MaxRequests /\ pc[1] = "idle"
    /\ query_count[1] = 1
    /\ analysis_history[1][1].type = "Custom Analysis"
    /\ last.op = "dash_custom" /\ last.outcome = "empty_request"

====
